---- MODULE Spec2Model ----
(***************************************************************************)
(* A model of the transaction-execution core of the Rethnet/EDR EVM        *)
(* runtime: the Block Builder (rethnet_evm/src/block/builder.rs), the      *)
(* Transaction Executor (rethnet_evm/src/runtime.rs) and the Inspector     *)
(* Compositor (edr_evm/src/inspector.rs).                                  *)
(*                                                                         *)
(* The state store (AsyncDatabase) and the interpreter (build_evm /        *)
(* Evm::inspect) are collaborators whose code is not among the source      *)
(* files; they are modelled from the specification's description.          *)
(***************************************************************************)
EXTENDS Integers, Sequences, FiniteSets, TLC

\* ------------------------------------------------------------------ bounds

\* add_transaction calls (accepted or rejected) made on one builder
MaxTxs == 2
\* longest rewards list handed to finalize
MaxRewards == 2
\* Executor calls (dry_run, guaranteed_dry_run, run) started in one behaviour
MaxCalls == 3
\* interpreter callbacks delivered to one compositor
MaxCallbacks == 3
\* the largest chain id whose two EIP-155 encodings of v are tried
MaxChainId == 3

\* --------------------------------------------------------------- constants

\* revm's SpecId::MERGE, the spec the code compares cfg.spec_id with
MERGE == 15
SpecIds == {MERGE - 1, MERGE, MERGE + 1}

Addr == {"a1", "a2"}
Other(a) == CHOOSE b \in Addr : b # a

\* Option<T>
None == [some |-> FALSE]
Some(v) == [some |-> TRUE, val |-> v]
unwrap_or(opt, default) == IF opt.some THEN opt.val ELSE default

Last(s) == s[Len(s)]
Front(s) == SubSeq(s, 1, Len(s) - 1)

\* TxEnv: the caller, the value sent to the other account, the gas limit, and
\* the gas the execution of its payload needs (what its code does)
Txs == [caller : Addr, value : {1}, gas_limit : 1..3, work : 1..2]

\* the block environments handed to the Executor
BlockEnvs == { [number |-> 8, gas_limit |-> 4, prevrandao |-> None],
               [number |-> 8, gas_limit |-> 4, prevrandao |-> Some("rand")] }

\* the parent header handed to BlockBuilder::new
Parent == [parent_hash |-> "hGrandparent", number |-> 7, gas_limit |-> 4,
           hash |-> "hParent"]
\* HeaderData: the overrides handed to BlockBuilder::new
HeaderDatas == { [parent_hash |-> None, number |-> None, gas_limit |-> None],
                 [parent_hash |-> Some("hOverride"), number |-> Some(20),
                  gas_limit |-> Some(3)] }

\* the (address, reward) entries finalize is handed
RewardEntries == { <<"a1", 5>>, <<"a1", 3>>, <<"a2", 3>> }
RECURSIVE SeqsUpTo(_, _)
SeqsUpTo(S, n) ==
    IF n = 0 THEN {<< >>}
    ELSE LET shorter == SeqsUpTo(S, n - 1)
         IN shorter \cup {Append(s, x) : s \in {q \in shorter : Len(q) = n - 1}, x \in S}
RewardLists == SeqsUpTo(RewardEntries, MaxRewards)

\* ------------------------------------------------------------------- state

VARIABLES
    store,       \* the shared state store: accounts and its checkpoint stack
    storeLog,    \* every operation issued on the store, in order: [op, by]
    evmRuns,     \* number of interpreter executions started so far
    builder,     \* the BlockBuilder: phase, header, transactions, cfg
    builderS0,   \* the store's accounts when the builder was constructed
    bnew,        \* the arguments BlockBuilder::new was called with
    bpc,         \* where the builder's current async call is suspended
    bcur,        \* the locals of the builder's current call
    bret,        \* what the builder's last call returned
    bcalls,      \* add_transaction calls made on the builder
    cfg,         \* the Executor's (Rethnet's) stored CfgEnv
    epc,         \* where the Executor's current async call is suspended
    ecur,        \* the locals of the Executor's current call
    eret,        \* what the Executor's last call returned
    ecalls,      \* Executor calls made so far
    ranGuaranteed, \* whether guaranteed_dry_run has been called on the Executor
    rpc,         \* where a second caller's run() stands: idle, exec, apply
    rcur,        \* the second caller's call in flight
    rret,        \* what the second caller's run() returned
    container,   \* the InspectorContainer: its variant and the owned collector
    fired,       \* the callbacks the interpreter has delivered, in order
    hookLog,     \* every hook invocation, in order: [who, kind, n]
    newArgs,     \* the arguments InspectorContainer::new was called with
    lastCb,      \* the last callback: what each hook was handed and returned
    lastClear,   \* what the last clear_trace call returned
    drained,     \* the traces clear_trace has returned so far, concatenated
    consumed,    \* what into_tracer returned, once the container was moved into it
    napiTx,      \* a signed transaction as it arrives over N-API
    chainIdRet,  \* what chain_id() returned for it
    castRet      \* what try_cast returned for it

storeVars == <<store, storeLog, evmRuns>>
builderVars == <<builder, builderS0, bnew, bpc, bcur, bret, bcalls>>
execVars == <<cfg, epc, ecur, eret, ecalls, ranGuaranteed>>
rivalVars == <<rpc, rcur, rret>>
inspVars == <<container, fired, hookLog, newArgs, lastCb, lastClear, drained,
             consumed>>
signedVars == <<napiTx, chainIdRet, castRet>>
vars == <<storeVars, builderVars, execVars, rivalVars, inspVars, signedVars>>

\* ------------------------------------------------------------- state store

InitAccounts == [a \in Addr |-> [balance |-> 1, nonce |-> 0]]

NoChanges == [a \in {} |-> 0]

\* AsyncDatabase::apply: commit a changeset (the touched accounts' new contents)
ApplyChanges(st, changes) ==
    [st EXCEPT !.accounts =
        [a \in Addr |-> IF a \in DOMAIN changes THEN changes[a] ELSE st.accounts[a]]]

\* AsyncDatabase::checkpoint: mark the current point of the store's history
Checkpoint(st) == [st EXCEPT !.checkpoints = Append(@, st.accounts)]

\* AsyncDatabase::revert: return to the latest marker and drop it; an error,
\* and no change, when there is none
Revert(st) ==
    IF Len(st.checkpoints) = 0
    THEN [ok |-> FALSE, store |-> st]
    ELSE [ok |-> TRUE,
          store |-> [accounts |-> Last(st.checkpoints),
                     checkpoints |-> Front(st.checkpoints)]]

\* (mutant) the closure overwrites the balance with the reward
ModifyAccountAddReward_Overwrites(st, address, reward) ==
    [st EXCEPT !.accounts[address].balance = reward]

\* AsyncDatabase::modify_account with BlockBuilder::finalize's closure
\* |balance, _nonce, _code| *balance += reward
ModifyAccountAddReward(st, address, reward) ==
    [st EXCEPT !.accounts[address].balance = @ + reward]

\* One request to the store, and a list of them issued in order
StoreDo(st, req) ==
    CASE req.op = "apply" -> ApplyChanges(st, req.changes)
      [] req.op = "checkpoint" -> Checkpoint(st)
      [] req.op = "revert" -> Revert(st).store
      [] req.op = "modify_account" -> ModifyAccountAddReward(st, req.address, req.reward)

RECURSIVE StoreDoAll(_, _)
StoreDoAll(st, reqs) ==
    IF reqs = << >> THEN st ELSE StoreDoAll(StoreDo(st, reqs[1]), Tail(reqs))

Logged(reqs, by) == [i \in 1..Len(reqs) |-> [op |-> reqs[i].op, by |-> by]]

\* ------------------------------------------------------------- interpreter

\* build_evm(blockchain, db, cfg, transaction, block) followed by
\* evm.inspect(inspector) and inspector.into_trace(): the execution result, the
\* changeset and the trace. Nothing is written to the store.
Inspect(config, accounts, tx, block) ==
    LET from == accounts[tx.caller]
        to == Other(tx.caller)
        funded == config.disable_balance_check \/ from.balance >= tx.value
        left == IF from.balance >= tx.value THEN from.balance - tx.value ELSE 0
    IN  IF ~funded
        THEN [result |-> [exit |-> "LackOfFundForGasLimit", gas_used |-> 0],
              changes |-> NoChanges,
              trace |-> << >>]
        ELSE IF tx.work > tx.gas_limit
        THEN [result |-> [exit |-> "OutOfGas", gas_used |-> tx.gas_limit],
              changes |-> [a \in {tx.caller} |-> [from EXCEPT !.nonce = @ + 1]],
              trace |-> << <<"call", tx.caller, to>>, <<"halt", "OutOfGas">> >>]
        ELSE [result |-> [exit |-> "Stop", gas_used |-> tx.work],
              changes |-> [a \in Addr |->
                              IF a = tx.caller
                              THEN [balance |-> left, nonce |-> from.nonce + 1]
                              ELSE [accounts[a] EXCEPT !.balance = @ + tx.value]],
              trace |-> << <<"call", tx.caller, to>>, <<"stop", tx.work>> >>]

\* ----------------------------------------------------------- Block Builder

\* BlockBuilder::new. The store is not touched: the checkpoint call is
\* commented out in the source.
BlockBuilder_new(config, parent, header) ==
    [phase |-> "Building",
     header |-> [parent_hash |-> unwrap_or(header.parent_hash, parent.parent_hash),
                 number |-> unwrap_or(header.number, parent.number + 1),
                 gas_limit |-> unwrap_or(header.gas_limit, parent.gas_limit),
                 gas_used |-> 0,
                 mix_hash |-> "zeroHash"],
     transactions |-> << >>,
     cfg |-> config]

\* the requests BlockBuilder::new sends to the store: none, the checkpoint
\* call is commented out
BlockBuilder_new_requests == << >>

gas_used(b) == b.header.gas_used

gas_remaining(b) == b.header.gas_limit - gas_used(b)

\* (mutant) the guard compares with the whole block's gas limit
ExceedsBlockGasLimit_IgnoresGasUsed(b, tx) == tx.gas_limit > b.header.gas_limit

\* (mutant) the guard also rejects a transaction that fits exactly
ExceedsBlockGasLimit_OffByOne(b, tx) == tx.gas_limit >= b.header.gas_limit - b.header.gas_used

\* the guard of add_transaction
ExceedsBlockGasLimit(b, tx) == tx.gas_limit > gas_remaining(b)

\* the BlockEnv add_transaction builds
BuilderBlockEnv(b) ==
    [number |-> b.header.number,
     gas_limit |-> b.header.gas_limit,
     prevrandao |-> IF b.cfg.spec_id > MERGE THEN Some(b.header.mix_hash) ELSE None]

Unbuilt == [phase |-> "Unbuilt",
            header |-> [parent_hash |-> "", number |-> 0, gas_limit |-> 0,
                        gas_used |-> 0, mix_hash |-> "zeroHash"],
            transactions |-> << >>,
            cfg |-> [spec_id |-> MERGE, disable_balance_check |-> FALSE]]

NoCall == [op |-> "none"]
NoRet == [kind |-> "none"]

\* (mutant) abort borrows the builder instead of consuming it
Building_AfterAbort(b) == b.phase \in {"Building", "Aborted"}

\* add_transaction borrows the builder; finalize(self, ..) and abort(self)
\* take it by value, so that a builder can be called only until one of them
\* has been
Building(b) == b.phase = "Building"

\* (mutant) the transaction is put in front of the pending list
PushTransaction_Front(txs, tx) == << tx >> \o txs

\* self.transactions.push(transaction)
PushTransaction(txs, tx) == Append(txs, tx)

Construct ==
    /\ builder.phase = "Unbuilt"
    /\ \E hd \in HeaderDatas :
          /\ builder' = BlockBuilder_new(cfg, Parent, hd)
          /\ bnew' = [cfg |-> cfg, parent |-> Parent, header |-> hd]
    /\ store' = StoreDoAll(store, BlockBuilder_new_requests)
    /\ storeLog' = storeLog \o Logged(BlockBuilder_new_requests, "builder")
    /\ builderS0' = store.accounts
    /\ UNCHANGED <<evmRuns, bpc, bcur, bret, bcalls, execVars, rivalVars, signedVars, inspVars>>

\* add_transaction up to its first suspension: the gas check, the push and
\* the block environment
AddTransactionBegin(tx) ==
    /\ Building(builder)
    /\ bpc = "idle"
    /\ bcalls < MaxTxs
    /\ bcalls' = bcalls + 1
    /\ IF ExceedsBlockGasLimit(builder, tx)
       THEN /\ bret' = [kind |-> "Err", error |-> "ExceedsBlockGasLimit", tx |-> tx]
            /\ UNCHANGED <<builder, bpc, bcur>>
       ELSE /\ builder' = [builder EXCEPT !.transactions = PushTransaction(@, tx)]
            /\ bcur' = [op |-> "add_transaction", tx |-> tx,
                        block |-> BuilderBlockEnv(builder),
                        gas_before |-> gas_used(builder)]
            /\ bpc' = "exec"
            /\ bret' = NoRet
    /\ UNCHANGED <<store, storeLog, evmRuns, builderS0, bnew, execVars, rivalVars, signedVars, inspVars>>

\* the spawned unit of work: the interpreter runs against the store
AddTransactionExec ==
    /\ bpc = "exec"
    /\ LET out == Inspect(builder.cfg, store.accounts, bcur.tx, bcur.block)
       IN  bcur' = [op |-> "add_transaction", tx |-> bcur.tx, block |-> bcur.block,
                    gas_before |-> bcur.gas_before, read |-> store.accounts,
                    result |-> out.result, changes |-> out.changes, trace |-> out.trace]
    /\ evmRuns' = evmRuns + 1
    /\ bpc' = "apply"
    /\ UNCHANGED <<store, storeLog, builder, builderS0, bnew, bret, bcalls, execVars, rivalVars, signedVars, inspVars>>

\* (mutant) the gas limit is charged instead of the gas consumed
AddTransactionGas_ChargesLimit(result, tx) == tx.gas_limit

\* what add_transaction adds to header.gas_used
AddTransactionGas(result, tx) == result.gas_used

\* (mutant) add_transaction returns without applying the changeset
AddTransactionRequests_Nothing(changes) == << >>

\* the requests add_transaction sends to the store once the execution is back
AddTransactionRequests(changes) == << [op |-> "apply", changes |-> changes] >>

\* self.state.apply(changes), then the gas accounting and the return
AddTransactionApply ==
    /\ bpc = "apply"
    /\ store' = StoreDoAll(store, AddTransactionRequests(bcur.changes))
    /\ storeLog' = storeLog \o Logged(AddTransactionRequests(bcur.changes), "builder")
    /\ builder' = [builder EXCEPT
                      !.header.gas_used = @ + AddTransactionGas(bcur.result, bcur.tx)]
    /\ bret' = [kind |-> "Ok", result |-> bcur.result, trace |-> bcur.trace,
                tx |-> bcur.tx, changes |-> bcur.changes,
                gas_before |-> bcur.gas_before]
    /\ bpc' = "idle"
    /\ bcur' = NoCall
    /\ UNCHANGED <<evmRuns, builderS0, bnew, bcalls, execVars, rivalVars, signedVars, inspVars>>

\* finalize(self, rewards): the builder is consumed
FinalizeBegin(rewards) ==
    /\ Building(builder)
    /\ bpc = "idle"
    /\ builder' = [builder EXCEPT !.phase = "Finalized"]
    /\ bcur' = [op |-> "finalize", rewards |-> rewards, all |-> rewards,
                before |-> store.accounts]
    /\ bpc' = "finalize"
    /\ bret' = NoRet
    /\ UNCHANGED <<store, storeLog, evmRuns, builderS0, bnew, bcalls, execVars, rivalVars, signedVars, inspVars>>

\* the request finalize sends for one (address, reward) entry
FinalizeRequest(entry) ==
    [op |-> "modify_account", address |-> entry[1], reward |-> entry[2]]

\* (mutant) finalize rolls the store back when modify_account fails
FinalizeErrorRequests_Reverts == << [op |-> "revert"] >>

\* the requests finalize sends to the store after a modify_account has
\* failed: none, the ? operator returns the error at once
FinalizeErrorRequests == << >>

\* one turn of finalize's loop: modify_account(...).await?, or Ok(()) at the
\* end of the list. The store may answer with an error.
FinalizeStep ==
    /\ bpc = "finalize"
    /\ IF bcur.rewards = << >>
       THEN /\ bret' = [kind |-> "Ok", op |-> "finalize", rewards |-> bcur.all,
                        before |-> bcur.before]
            /\ bpc' = "idle"
            /\ bcur' = NoCall
            /\ UNCHANGED <<store, storeLog>>
       ELSE \/ /\ store' = StoreDo(store, FinalizeRequest(bcur.rewards[1]))
               /\ storeLog' = Append(storeLog, [op |-> "modify_account", by |-> "builder"])
               /\ bcur' = [bcur EXCEPT !.rewards = Tail(@)]
               /\ UNCHANGED <<bpc, bret>>
            \/ /\ bret' = [kind |-> "Err", error |-> "store", op |-> "finalize",
                            rewards |-> bcur.all, before |-> bcur.before,
                            failed |-> Len(bcur.all) - Len(bcur.rewards) + 1]
               /\ store' = StoreDoAll(store, FinalizeErrorRequests)
               /\ storeLog' = Append(storeLog, [op |-> "modify_account", by |-> "builder"])
                                 \o Logged(FinalizeErrorRequests, "builder")
               /\ bpc' = "idle"
               /\ bcur' = NoCall
    /\ UNCHANGED <<evmRuns, builder, builderS0, bnew, bcalls, execVars, rivalVars, signedVars, inspVars>>

\* the requests abort sends to the store
AbortRequests == << [op |-> "revert"] >>

\* abort(self): self.state.revert().await
Abort ==
    /\ Building(builder)
    /\ bpc = "idle"
    /\ builder' = [builder EXCEPT !.phase = "Aborted"]
    /\ store' = StoreDoAll(store, AbortRequests)
    /\ storeLog' = storeLog \o Logged(AbortRequests, "builder")
    /\ bret' = IF \E i \in 1..Len(AbortRequests) : AbortRequests[i].op = "revert"
                  /\ ~Revert(store).ok
               THEN [kind |-> "Err", error |-> "store"]
               ELSE [kind |-> "Ok"]
    /\ bpc' = "idle"
    /\ UNCHANGED <<evmRuns, builderS0, bnew, bcur, bcalls, execVars, rivalVars, signedVars, inspVars>>

\* ---------------------------------------------------- Transaction Executor

EntryPoints == {"dry_run", "guaranteed_dry_run", "run"}

\* the transactions handed to the Executor
ExecTxs == {tx \in Txs : tx.gas_limit = 1}

\* dry_run's precondition: Err(MissingPrevrandao) when it holds
DryRunMissingPrevrandao(c, block) == c.spec_id > MERGE /\ ~block.prevrandao.some

\* guaranteed_dry_run's precondition
GuaranteedDryRunMissingPrevrandao(c, block) ==
    c.spec_id > MERGE /\ ~block.prevrandao.some

\* run starts with self.dry_run(transaction, block).await?
RunMissingPrevrandao(c, block) == DryRunMissingPrevrandao(c, block)

MissingPrevrandao(entry, c, block) ==
    CASE entry = "dry_run" -> DryRunMissingPrevrandao(c, block)
      [] entry = "guaranteed_dry_run" -> GuaranteedDryRunMissingPrevrandao(c, block)
      [] entry = "run" -> RunMissingPrevrandao(c, block)

\* the configuration each entry point hands to build_evm
DryRunCfg(c) == c
GuaranteedDryRunCfg(c) == [c EXCEPT !.disable_balance_check = TRUE]
RunCfg(c) == DryRunCfg(c)

EntryCfg(entry, c) ==
    CASE entry = "dry_run" -> DryRunCfg(c)
      [] entry = "guaranteed_dry_run" -> GuaranteedDryRunCfg(c)
      [] entry = "run" -> RunCfg(c)

\* (mutant) guaranteed_dry_run sets the flag on the Executor's own cfg
GuaranteedDryRunStoredCfg_Shared(c) == [c EXCEPT !.disable_balance_check = TRUE]

\* self.cfg after guaranteed_dry_run: the flag is set on a clone, self is
\* borrowed immutably
GuaranteedDryRunStoredCfg(c) == c

\* (mutant) dry_run commits what it executed
DryRunRequests_Commits(changes) == << [op |-> "apply", changes |-> changes] >>

\* (mutant) run forgets to apply
RunApplyRequests_Nothing(changes) == << >>

\* the requests each entry point sends to the store once the execution is back
DryRunRequests(changes) == << >>
GuaranteedDryRunRequests(changes) == << >>
\* ... and what run sends once its dry_run has returned Ok
RunApplyRequests(changes) == << [op |-> "apply", changes |-> changes] >>

\* dry_run as a function of its inputs and of the store it reads
dry_run(c, accounts, tx, block) ==
    IF DryRunMissingPrevrandao(c, block)
    THEN [kind |-> "Err", error |-> "MissingPrevrandao"]
    ELSE LET out == Inspect(DryRunCfg(c), accounts, tx, block)
         IN  [kind |-> "Ok", result |-> out.result, changes |-> out.changes,
              trace |-> out.trace]

\* an entry point up to its first suspension: the precondition, the clones
\* and the spawn
Call(entry, tx, block) ==
    /\ epc = "idle"
    /\ ecalls < MaxCalls
    /\ ecalls' = ecalls + 1
    /\ IF MissingPrevrandao(entry, cfg, block)
       THEN /\ eret' = [kind |-> "Err", error |-> "MissingPrevrandao", entry |-> entry,
                        tx |-> tx, block |-> block, store0 |-> store, log0 |-> storeLog,
                        runs0 |-> evmRuns]
            /\ UNCHANGED <<epc, ecur>>
       ELSE /\ ecur' = [entry |-> entry, tx |-> tx, block |-> block,
                        cfg |-> EntryCfg(entry, cfg), store0 |-> store,
                        log0 |-> storeLog, runs0 |-> evmRuns]
            /\ epc' = "exec"
            /\ eret' = NoRet
    /\ cfg' = IF entry = "guaranteed_dry_run" THEN GuaranteedDryRunStoredCfg(cfg) ELSE cfg
    /\ ranGuaranteed' = (ranGuaranteed \/ entry = "guaranteed_dry_run")
    /\ UNCHANGED <<storeVars, builderVars, rivalVars, signedVars, inspVars>>

\* the spawned unit of work: the interpreter runs against the store. dry_run
\* and guaranteed_dry_run return what it produced; run goes on to apply.
Execute ==
    /\ epc = "exec"
    /\ evmRuns' = evmRuns + 1
    /\ LET out == Inspect(ecur.cfg, store.accounts, ecur.tx, ecur.block)
           reqs == IF ecur.entry = "guaranteed_dry_run"
                   THEN GuaranteedDryRunRequests(out.changes)
                   ELSE DryRunRequests(out.changes)
       IN  /\ store' = StoreDoAll(store, reqs)
           /\ storeLog' = storeLog \o Logged(reqs, "executor")
           /\ IF ecur.entry = "run"
              THEN /\ ecur' = [entry |-> ecur.entry, tx |-> ecur.tx, block |-> ecur.block,
                               cfg |-> ecur.cfg, store0 |-> ecur.store0,
                               log0 |-> ecur.log0, runs0 |-> ecur.runs0,
                               result |-> out.result, changes |-> out.changes,
                               trace |-> out.trace]
                   /\ epc' = "apply"
                   /\ UNCHANGED eret
              ELSE /\ eret' = [kind |-> "Ok", entry |-> ecur.entry, tx |-> ecur.tx,
                               block |-> ecur.block, store0 |-> ecur.store0,
                               log0 |-> ecur.log0, runs0 |-> ecur.runs0,
                               result |-> out.result, changes |-> out.changes,
                               trace |-> out.trace]
                   /\ epc' = "idle"
                   /\ ecur' = NoCall
    /\ UNCHANGED <<builderVars, rivalVars, signedVars, inspVars, cfg, ecalls, ranGuaranteed>>

\* run after dry_run has returned Ok: self.db.apply(changes).await, then
\* Ok((result, trace))
RunApply ==
    /\ epc = "apply"
    /\ store' = StoreDoAll(store, RunApplyRequests(ecur.changes))
    /\ storeLog' = storeLog \o Logged(RunApplyRequests(ecur.changes), "executor")
    /\ eret' = [kind |-> "Ok", entry |-> ecur.entry, tx |-> ecur.tx,
                block |-> ecur.block, store0 |-> ecur.store0, log0 |-> ecur.log0,
                runs0 |-> ecur.runs0, result |-> ecur.result, trace |-> ecur.trace]
    /\ epc' = "idle"
    /\ ecur' = NoCall
    /\ UNCHANGED <<evmRuns, builderVars, rivalVars, signedVars, inspVars, cfg, ecalls, ranGuaranteed>>

\* A second task calls run() on the same Rethnet, once, while the first
\* caller's calls are in flight: run up to its first suspension
RivalCall(tx, block) ==
    /\ rpc = "idle"
    /\ rret = NoRet
    /\ IF RunMissingPrevrandao(cfg, block)
       THEN /\ rret' = [kind |-> "Err", error |-> "MissingPrevrandao", tx |-> tx,
                        block |-> block]
            /\ UNCHANGED <<rpc, rcur>>
       ELSE /\ rcur' = [entry |-> "run", tx |-> tx, block |-> block, cfg |-> RunCfg(cfg)]
            /\ rpc' = "exec"
            /\ UNCHANGED rret
    /\ UNCHANGED <<storeVars, builderVars, execVars, inspVars, signedVars>>

\* the second caller's spawned unit of work
RivalExecute ==
    /\ rpc = "exec"
    /\ evmRuns' = evmRuns + 1
    /\ LET out == Inspect(rcur.cfg, store.accounts, rcur.tx, rcur.block)
       IN  rcur' = [entry |-> "run", tx |-> rcur.tx, block |-> rcur.block,
                    cfg |-> rcur.cfg, read |-> store.accounts,
                    result |-> out.result, changes |-> out.changes, trace |-> out.trace]
    /\ rpc' = "apply"
    /\ UNCHANGED <<store, storeLog, builderVars, execVars, rret, inspVars, signedVars>>

\* the second caller's self.db.apply(changes).await, then Ok((result, trace))
RivalApply ==
    /\ rpc = "apply"
    /\ store' = StoreDoAll(store, RunApplyRequests(rcur.changes))
    /\ storeLog' = storeLog \o Logged(RunApplyRequests(rcur.changes), "rival")
    /\ rret' = [kind |-> "Ok", tx |-> rcur.tx, block |-> rcur.block, read |-> rcur.read,
                result |-> rcur.result, trace |-> rcur.trace]
    /\ rpc' = "idle"
    /\ rcur' = NoCall
    /\ UNCHANGED <<evmRuns, builderVars, execVars, inspVars, signedVars>>

\* ----------------------------------------------------- Inspector Compositor

CallbackKinds == {"initialize_interp", "step", "step_end", "log", "call", "call_end",
                  "create", "create_end", "selfdestruct"}

\* (mutant) the mutable inspector's log hook runs first
Dual_log_MutableFirst == << "mutable", "immutable" >>

\* impl Inspector for DualInspector: the hooks each callback invokes, in order
Dual_initialize_interp == << "immutable", "mutable" >>
Dual_step == << "immutable", "mutable" >>
Dual_log == << "immutable", "mutable" >>
Dual_step_end == << "immutable", "mutable" >>
Dual_call == << "immutable", "mutable" >>
Dual_call_end == << "immutable", "mutable" >>
Dual_create == << "immutable", "mutable" >>
Dual_create_end == << "immutable", "mutable" >>
Dual_selfdestruct == << "immutable", "mutable" >>

DualHooks(kind) ==
    CASE kind = "initialize_interp" -> Dual_initialize_interp
      [] kind = "step" -> Dual_step
      [] kind = "log" -> Dual_log
      [] kind = "step_end" -> Dual_step_end
      [] kind = "call" -> Dual_call
      [] kind = "call_end" -> Dual_call_end
      [] kind = "create" -> Dual_create
      [] kind = "create_end" -> Dual_create_end
      [] kind = "selfdestruct" -> Dual_selfdestruct

\* the callbacks whose hooks return a value to the interpreter
Returning == {"call", "call_end", "create", "create_end"}

\* (mutant) call hands back what the immutable inspector returned
Dual_call_returns_Immutable(immRet, mutRet) == immRet

\* (mutant) create_end hands the mutable inspector what the immutable one
\* returned
Dual_create_end_args_Chained(payload, immRet) ==
    [immutable |-> payload, mutable |-> immRet]

\* what DualInspector returns from call, call_end, create and create_end,
\* given what its two inspectors' hooks returned
Dual_call_returns(immRet, mutRet) == mutRet
Dual_call_end_returns(immRet, mutRet) == mutRet
Dual_create_returns(immRet, mutRet) == mutRet
Dual_create_end_returns(immRet, mutRet) == mutRet

DualReturns(kind, immRet, mutRet) ==
    CASE kind = "call" -> Dual_call_returns(immRet, mutRet)
      [] kind = "call_end" -> Dual_call_end_returns(immRet, mutRet)
      [] kind = "create" -> Dual_create_returns(immRet, mutRet)
      [] kind = "create_end" -> Dual_create_end_returns(immRet, mutRet)
      [] OTHER -> "unit"

\* what DualInspector hands each inspector's call_end and create_end hook:
\* the immutable one a clone of the payload, the mutable one the payload
Dual_call_end_args(payload, immRet) == [immutable |-> payload, mutable |-> payload]
Dual_create_end_args(payload, immRet) == [immutable |-> payload, mutable |-> payload]

\* the other callbacks hand both inspectors the same references
DualArgs(kind, payload, immRet) ==
    CASE kind = "call_end" -> Dual_call_end_args(payload, immRet)
      [] kind = "create_end" -> Dual_create_end_args(payload, immRet)
      [] OTHER -> [immutable |-> payload, mutable |-> payload]

\* DualInspector::new(immutable, mutable) as InspectorContainer::new calls it:
\* the owned TraceCollector is the immutable part, the borrowed observer the
\* mutable one
DualPart(role) == IF role = "immutable" THEN "collector" ELSE "observer"

\* (mutant) new drops the observer whenever tracing is asked for
InspectorContainer_new_DropsObserver(with_trace, tracer) ==
    IF with_trace
    THEN [variant |-> "Collector", collector |-> << >>]
    ELSE IF tracer.some
         THEN [variant |-> "Inspector", collector |-> << >>]
         ELSE [variant |-> "None", collector |-> << >>]

\* InspectorContainer::new(with_trace, tracer)
InspectorContainer_new(with_trace, tracer) ==
    IF with_trace
    THEN IF tracer.some
         THEN [variant |-> "Dual", collector |-> << >>]
         ELSE [variant |-> "Collector", collector |-> << >>]
    ELSE IF tracer.some
         THEN [variant |-> "Inspector", collector |-> << >>]
         ELSE [variant |-> "None", collector |-> << >>]

\* InspectorContainer::as_dyn_inspector: the handle the interpreter is given
as_dyn_inspector(c) ==
    CASE c.variant = "None" -> None
      [] c.variant = "Collector" -> Some("collector")
      [] c.variant = "Dual" -> Some("dual")
      [] c.variant = "Inspector" -> Some("observer")

\* who is invoked, in order, when the interpreter delivers a callback to the
\* handle
Dispatch(handle, kind) ==
    IF ~handle.some THEN << >>
    ELSE IF handle.val = "dual"
    THEN [i \in 1..Len(DualHooks(kind)) |-> DualPart(DualHooks(kind)[i])]
    ELSE << handle.val >>

\* TraceCollector's hooks: each appends its event to the owned trace
CollectorRecords(trace, who, kind) ==
    IF who = "collector" THEN Append(trace, kind) ELSE trace

RECURSIVE CollectAll(_, _, _)
CollectAll(trace, whos, kind) ==
    IF whos = << >> THEN trace
    ELSE CollectAll(CollectorRecords(trace, whos[1], kind), Tail(whos), kind)

\* the payloads the interpreter hands a callback: call_end an
\* InterpreterResult, create_end an (InterpreterResult, Option<Address>), the
\* others their arguments
Payloads(kind) ==
    CASE kind = "call_end" -> {"resultA", "resultB"}
      [] kind = "create_end" -> {<<"resultA", None>>, <<"resultB", Some("a1")>>}
      [] OTHER -> {"args"}

\* the values a hook of an arbitrary inspector may return
HookReturns(kind) ==
    CASE kind = "call" -> {None, Some("callOverride")}
      [] kind = "create" -> {None, Some("createOverride")}
      [] kind \in {"call_end", "create_end"} -> Payloads(kind)
      [] OTHER -> {"unit"}

NoCallback == [kind |-> "none"]

\* the interpreter delivers one callback to the container's handle; immRet
\* and mutRet are what the collector's and the observer's hook return
Callback(kind, payload, immRet, mutRet) ==
    /\ consumed = NoRet
    /\ Len(fired) < MaxCallbacks
    /\ fired' = Append(fired, kind)
    /\ LET handle == as_dyn_inspector(container)
           whos == Dispatch(handle, kind)
           args == DualArgs(kind, payload, immRet)
       IN  /\ hookLog' = hookLog \o
                  [i \in 1..Len(whos) |-> [who |-> whos[i], kind |-> kind,
                                           n |-> Len(fired) + 1]]
           /\ container' = [container EXCEPT !.collector = CollectAll(@, whos, kind)]
           /\ lastCb' =
                 [kind |-> kind, payload |-> payload,
                  collectorRet |-> immRet, observerRet |-> mutRet,
                  collectorArg |-> IF ~handle.some \/ handle.val = "observer" THEN None
                                   ELSE IF handle.val = "dual"
                                   THEN Some(args.immutable)
                                   ELSE Some(payload),
                  observerArg |-> IF ~handle.some \/ handle.val = "collector" THEN None
                                  ELSE IF handle.val = "dual"
                                  THEN Some(args.mutable)
                                  ELSE Some(payload),
                  ret |-> IF ~handle.some THEN None
                          ELSE IF handle.val = "dual"
                          THEN Some(DualReturns(kind, immRet, mutRet))
                          ELSE IF handle.val = "collector" THEN Some(immRet)
                          ELSE Some(mutRet)]
    /\ UNCHANGED <<storeVars, builderVars, execVars, rivalVars, signedVars, newArgs, lastClear, drained,
                   consumed>>

\* TraceCollector::into_trace: the events the collector has accumulated
into_trace(collector) == collector

\* TraceCollector::default(): a collector with an empty trace
TraceCollector_default == << >>

\* (mutant) clear_trace returns the trace and keeps the collector as it is
clear_trace_KeepsCollector(c) ==
    IF c.variant \in {"None", "Inspector"}
    THEN [container |-> c, ret |-> None]
    ELSE [container |-> c, ret |-> Some(into_trace(c.collector))]

\* InspectorContainer::clear_trace: std::mem::take on the owned collector,
\* then into_trace on what was taken
clear_trace(c) ==
    CASE c.variant \in {"None", "Inspector"} -> [container |-> c, ret |-> None]
      [] c.variant = "Collector" ->
            [container |-> [c EXCEPT !.collector = TraceCollector_default],
             ret |-> Some(into_trace(c.collector))]
      [] c.variant = "Dual" ->
            [container |-> [c EXCEPT !.collector = TraceCollector_default],
             ret |-> Some(into_trace(c.collector))]

ClearTrace ==
    /\ consumed = NoRet
    /\ container' = clear_trace(container).container
    /\ lastClear' = clear_trace(container).ret
    /\ drained' = IF clear_trace(container).ret.some
                  THEN drained \o clear_trace(container).ret.val
                  ELSE drained
    /\ UNCHANGED <<storeVars, builderVars, execVars, rivalVars, signedVars, fired, hookLog, newArgs, lastCb,
                   consumed>>

\* (mutant) into_tracer gives up the collector of a Dual container with the
\* observer
into_tracer_DualNothing(c) ==
    CASE c.variant \in {"None", "Inspector"} -> None
      [] c.variant = "Collector" -> Some(c.collector)
      [] c.variant = "Dual" -> None

\* InspectorContainer::into_tracer: the owned TraceCollector, by value;
\* d.into_parts().0 is the immutable part of a DualInspector
into_tracer(c) ==
    CASE c.variant \in {"None", "Inspector"} -> None
      [] c.variant = "Collector" -> Some(c.collector)
      [] c.variant = "Dual" -> Some(c.collector)

\* a call of into_tracer(self): the container is moved into it, no callback
\* and no clear_trace can follow
IntoTracer ==
    /\ consumed = NoRet
    /\ consumed' = [kind |-> "Ok", tracer |-> into_tracer(container)]
    /\ UNCHANGED <<storeVars, builderVars, execVars, rivalVars, signedVars, container, fired, hookLog,
                   newArgs, lastCb, lastClear, drained>>

\* ------------------------------------------------------ signed transactions

\* the signature's v as N-API delivers it, a BigInt: one that fits a u64, or
\* one that does not
NapiVs == [fits : {TRUE}, val : 0..(2 * MaxChainId + 36)] \cup {[fits |-> FALSE]}

\* Either3::A, B, C: a legacy-shaped, an EIP-2930 and an EIP-1559 transaction;
\* convertible tells whether the fields' own conversions (try_into) succeed
NapiTxs == [shape : {"A", "B", "C"}, v : NapiVs, convertible : BOOLEAN]

\* (mutant) chain_id treats v = 35 and v = 36 as EIP-155 encodings
chain_id_From35(v) == IF v >= 35 THEN Some((v - 35) \div 2) ELSE None

\* LegacySignedTransaction::chain_id, of the signature's v (a u64)
chain_id(v) == IF v > 36 THEN Some((v - 35) \div 2) ELSE None

\* BigInt::try_cast to u64
BigIntToU64(big) == IF big.fits THEN [kind |-> "Ok", val |-> big.val] ELSE [kind |-> "Err"]

\* transaction.try_into()? into the variant it was classified as
TryInto(t, variant) ==
    IF t.convertible THEN [kind |-> "Ok", variant |-> variant]
    ELSE [kind |-> "Err", error |-> "napi"]

\* TryCast<rethnet_eth::transaction::SignedTransaction>::try_cast
try_cast(t) ==
    CASE t.shape = "A" ->
            LET v == BigIntToU64(t.v)
            IN  IF v.kind = "Err" THEN [kind |-> "Err", error |-> "napi"]
                ELSE IF v.val > 36 THEN TryInto(t, "EIP155")
                ELSE TryInto(t, "Legacy")
      [] t.shape = "B" -> TryInto(t, "EIP2930")
      [] t.shape = "C" -> TryInto(t, "EIP1559")

\* chain_id() is called on the legacy transaction the N-API one converts to
ChainId ==
    /\ napiTx.shape = "A"
    /\ napiTx.v.fits
    /\ chainIdRet = NoRet
    /\ chainIdRet' = [kind |-> "Ok", val |-> chain_id(napiTx.v.val)]
    /\ UNCHANGED <<storeVars, builderVars, execVars, rivalVars, inspVars, napiTx, castRet>>

\* try_cast is called on the N-API transaction
TryCast ==
    /\ castRet = NoRet
    /\ castRet' = try_cast(napiTx)
    /\ UNCHANGED <<storeVars, builderVars, execVars, rivalVars, inspVars, napiTx, chainIdRet>>

\* ------------------------------------------------------------------ claims

\* the sum of the amounts a reward list holds for an address
RECURSIVE RewardSum(_, _)
RewardSum(rewards, a) ==
    IF rewards = << >> THEN 0
    ELSE (IF rewards[1][1] = a THEN rewards[1][2] ELSE 0) + RewardSum(Tail(rewards), a)

\* the accounts after the transactions of a list were executed and applied
\* one after the other, starting from the given accounts
RECURSIVE Replay(_, _, _)
Replay(b, accounts, txs) ==
    IF txs = << >> THEN accounts
    ELSE Replay(b,
                ApplyChanges([accounts |-> accounts, checkpoints |-> << >>],
                             Inspect(b.cfg, accounts, txs[1], BuilderBlockEnv(b)).changes).accounts,
                Tail(txs))

\* the accounts after run() was called for each transaction of a list, one
\* call returning before the next
RECURSIVE Serial(_, _, _)
Serial(c, accounts, calls) ==
    IF calls = << >> THEN accounts
    ELSE Serial(c,
                ApplyChanges([accounts |-> accounts, checkpoints |-> << >>],
                             Inspect(RunCfg(c), accounts, calls[1].tx,
                                     calls[1].block).changes).accounts,
                Tail(calls))

Count(log, op) == Cardinality({i \in 1..Len(log) : log[i].op = op})
CountBy(log, op, by) ==
    Cardinality({i \in 1..Len(log) : log[i].op = op /\ log[i].by = by})

\* C1: on one Block Builder, whatever add_transaction calls were accepted or
\* rejected, header.gas_used never exceeds header.gas_limit, the subtraction
\* in gas_remaining() never goes below zero, and gas_used never decreases
\* from one state to the next.
C1_GasBoundedAndMonotonic ==
    /\ [](/\ builder.header.gas_used <= builder.header.gas_limit
          /\ gas_remaining(builder) >= 0)
    /\ [][builder'.header.gas_used >= builder.header.gas_used]_vars

\* the block is exactly full after two accepted transactions
C1_Witness ==
    /\ builder.phase = "Building"
    /\ Len(builder.transactions) = 2
    /\ builder.header.gas_used = builder.header.gas_limit
    /\ bret.kind = "Ok"

\* C2: add_transaction(tx) with tx.gas_limit above the remaining gas returns
\* ExceedsBlockGasLimit, starts no execution and leaves gas_used, the pending
\* list and the store as they were; tx.gas_limit equal to the remaining gas
\* is accepted (pushed and sent to execution).
C2_RejectionLeavesNoTrace ==
    [][\A tx \in Txs :
         LET remaining == builder.header.gas_limit - builder.header.gas_used
         IN  /\ (AddTransactionBegin(tx) /\ tx.gas_limit > remaining) =>
                    /\ bret' = [kind |-> "Err", error |-> "ExceedsBlockGasLimit",
                                tx |-> tx]
                    /\ bpc' = "idle"
                    /\ evmRuns' = evmRuns
                    /\ builder' = builder
                    /\ store' = store
                    /\ storeLog' = storeLog
             /\ (AddTransactionBegin(tx) /\ tx.gas_limit = remaining) =>
                    /\ bret'.kind # "Err"
                    /\ bpc' = "exec"
                    /\ builder'.transactions = Append(builder.transactions, tx)
    ]_vars

\* a transaction was rejected after another one had been accepted and had
\* used gas
C2_Witness ==
    /\ bret.kind = "Err"
    /\ bret.error = "ExceedsBlockGasLimit"
    /\ Len(builder.transactions) = 1
    /\ builder.header.gas_used > 0
    /\ bret.tx.gas_limit = gas_remaining(builder) + 1

\* C3 (as claimed): after abort() the store equals the store the builder
\* was constructed on.
C3_AbortRestoresConstructionState ==
    builder.phase = "Aborted" => store.accounts = builderS0

\* C4 (as claimed): a constructed builder has taken a checkpoint on the
\* store, before any of its executions or applies, and abort's revert has a
\* checkpoint of the same builder to return to.
C4_CheckpointTakenAtConstruction ==
    /\ builder.phase # "Unbuilt" =>
          /\ Len(storeLog) >= 1
          /\ storeLog[1] = [op |-> "checkpoint", by |-> "builder"]
    /\ CountBy(storeLog, "revert", "builder") <= CountBy(storeLog, "checkpoint", "builder")

\* C5: an accepted add_transaction adds to gas_used the gas the execution
\* result reports, not the transaction's gas_limit, and applies the
\* execution's changeset to the store exactly once.
C5_GasAndChangesetOfAcceptedTransaction ==
    [][AddTransactionApply =>
         LET out == Inspect(builder.cfg, bcur.read, bcur.tx, bcur.block)
         IN  /\ bcur.result = out.result
             /\ builder'.header.gas_used = builder.header.gas_used + out.result.gas_used
             /\ store' = ApplyChanges(store, out.changes)
             /\ Count(storeLog', "apply") = Count(storeLog, "apply") + 1
             /\ Len(storeLog') = Len(storeLog) + 1
             /\ bret'.kind = "Ok"
             /\ bret'.result = out.result
    ]_vars

\* a second accepted transaction used less gas than its gas_limit
C5_Witness ==
    /\ bret.kind = "Ok"
    /\ Len(builder.transactions) = 2
    /\ bret.gas_before > 0
    /\ bret.result.gas_used < bret.tx.gas_limit
    /\ builder.header.gas_used = bret.gas_before + bret.result.gas_used
    /\ bret.changes # NoChanges
    /\ Count(storeLog, "apply") = 2

\* C6: dry_run and guaranteed_dry_run, succeeding or failing, leave the store
\* as it was when they were called and send it no apply, checkpoint or revert.
C6_DryRunsLeaveStore ==
    /\ (epc = "exec" /\ ecur.entry \in {"dry_run", "guaranteed_dry_run"}) =>
          (store = ecur.store0 /\ storeLog = ecur.log0)
    /\ (eret.kind # "none" /\ eret.entry \in {"dry_run", "guaranteed_dry_run"}) =>
          (store = eret.store0 /\ storeLog = eret.log0)

\* a guaranteed_dry_run returned a changeset that would have changed the store
C6_Witness ==
    /\ eret.kind = "Ok"
    /\ eret.entry = "guaranteed_dry_run"
    /\ eret.changes # NoChanges
    /\ ApplyChanges(store, eret.changes) # store
    /\ Len(storeLog) > 0

\* C7: run() returns the result and trace dry_run() returns for the same
\* transaction, block environment and starting store, and leaves the store
\* as the starting store with dry_run()'s changeset applied once.
C7_RunIsDryRunPlusApply ==
    (eret.kind # "none" /\ eret.entry = "run") =>
        LET d == dry_run(cfg, eret.store0.accounts, eret.tx, eret.block)
        IN  /\ eret.kind = d.kind
            /\ d.kind = "Err" =>
                  /\ eret.error = d.error
                  /\ store = eret.store0
                  /\ storeLog = eret.log0
            /\ d.kind = "Ok" =>
                  /\ eret.result = d.result
                  /\ eret.trace = d.trace
                  /\ store = ApplyChanges(eret.store0, d.changes)
                  /\ storeLog = Append(eret.log0, [op |-> "apply", by |-> "executor"])

\* a run() executed a transfer and committed it
C7_Witness ==
    /\ eret.kind = "Ok"
    /\ eret.entry = "run"
    /\ eret.result.exit = "Stop"
    /\ store # eret.store0
    /\ Len(eret.log0) > 0

\* the spec's "at or beyond the merge transition"
PostMerge(spec_id) == spec_id >= MERGE

\* C8 (as claimed): dry_run, guaranteed_dry_run and run, called with a
\* post-merge spec and a block environment without prevrandao, return
\* MissingPrevrandao, start no execution and leave the store unchanged.
C8_MissingPrevrandaoFailsFast ==
    /\ epc # "idle" => ~(PostMerge(cfg.spec_id) /\ ~ecur.block.prevrandao.some)
    /\ (eret.kind # "none" /\ PostMerge(cfg.spec_id) /\ ~eret.block.prevrandao.some) =>
          /\ eret.kind = "Err"
          /\ eret.error = "MissingPrevrandao"
          /\ evmRuns = eret.runs0
          /\ store = eret.store0
          /\ storeLog = eret.log0

\* what the code does hold to: the same, for the specs later than MERGE
C8_LaterSpecsFailFast ==
    /\ epc # "idle" => ~(cfg.spec_id > MERGE /\ ~ecur.block.prevrandao.some)
    /\ (eret.kind # "none" /\ cfg.spec_id > MERGE /\ ~eret.block.prevrandao.some) =>
          /\ eret.kind = "Err"
          /\ eret.error = "MissingPrevrandao"
          /\ evmRuns = eret.runs0
          /\ store = eret.store0
          /\ storeLog = eret.log0

\* C9 (as claimed): with cfg.spec_id exactly SpecId::MERGE and a block
\* environment without prevrandao, an Executor call fails with
\* MissingPrevrandao before the interpreter is touched.
C9_MergeItselfRequiresPrevrandao ==
    (cfg.spec_id = MERGE) =>
        /\ epc = "exec" => ecur.block.prevrandao.some
        /\ (eret.kind = "Ok") => eret.block.prevrandao.some

\* positions of the hook invocations of callback n made on who
HookPositions(who, n) ==
    {i \in 1..Len(hookLog) : hookLog[i].who = who /\ hookLog[i].n = n}

\* C10: in a Dual container every delivered callback, of each of the nine
\* kinds, invokes the owned collector's hook exactly once and then the
\* borrowed observer's hook exactly once; the observer's hook never runs
\* before or without the collector's.
C10_DualCollectorThenObserver ==
    container.variant = "Dual" =>
        /\ \A n \in 1..Len(fired) :
              /\ Cardinality(HookPositions("collector", n)) = 1
              /\ Cardinality(HookPositions("observer", n)) = 1
              /\ \A i \in HookPositions("collector", n), j \in HookPositions("observer", n) :
                    /\ j = i + 1
                    /\ hookLog[i].kind = fired[n]
                    /\ hookLog[j].kind = fired[n]
        /\ \A i \in 1..Len(hookLog) : hookLog[i].n \in 1..Len(fired)

\* a Dual container has passed on a log, a step_end and a call_end callback
C10_Witness ==
    /\ container.variant = "Dual"
    /\ fired = << "log", "step_end", "call_end" >>
    /\ Len(hookLog) = 6

\* C11: in a Dual container the value handed back to the interpreter from
\* call, call_end, create and create_end is exactly what the observer's hook
\* returned, whatever the collector's hook returned.
C11_DualReturnsObserversValue ==
    (container.variant = "Dual" /\ lastCb.kind \in Returning) =>
        lastCb.ret = Some(lastCb.observerRet)

\* C11 witness: the collector's call hook returned an override, the
\* observer's none, and the interpreter was handed none.
C11_Witness ==
    /\ container.variant = "Dual"
    /\ lastCb.kind = "call"
    /\ lastCb.collectorRet = Some("callOverride")
    /\ lastCb.observerRet = None
    /\ lastCb.ret = Some(None)

\* C12: on a Collector or Dual container clear_trace returns exactly the
\* events accumulated since construction or the previous clear_trace, in
\* order, and leaves the same variant with an empty collector; the traces
\* returned so far followed by the collector's content are always the
\* delivered callbacks, none lost, none twice.
C12_ClearTraceDrainsCollector ==
    [][/\ (ClearTrace /\ container.variant \in {"Collector", "Dual"}) =>
             /\ lastClear' = Some(container.collector)
             /\ container'.variant = container.variant
             /\ container'.collector = << >>
       /\ container'.variant \in {"Collector", "Dual"} =>
             drained' \o container'.collector = fired']_vars

\* C12 witness: execute, clear, execute, clear on a Dual container: the second
\* clear returned the second execution's event only.
C12_Witness ==
    /\ container.variant = "Dual"
    /\ fired = << "step", "log" >>
    /\ drained = << "step", "log" >>
    /\ lastClear = Some(<< "log" >>)
    /\ container.collector = << >>

\* C13: InspectorContainer::new(with_trace, observer) selects Dual for
\* (true, some), Collector for (true, none), Inspector for (false, some) and
\* None for (false, none), and an owned collector starts empty.
C13_NewSelectsVariant ==
    /\ container.variant =
          (CASE newArgs.with_trace /\ newArgs.tracer.some -> "Dual"
             [] newArgs.with_trace /\ ~newArgs.tracer.some -> "Collector"
             [] ~newArgs.with_trace /\ newArgs.tracer.some -> "Inspector"
             [] ~newArgs.with_trace /\ ~newArgs.tracer.some -> "None")
    /\ (fired = << >> /\ container.variant \in {"Collector", "Dual"}) =>
          container.collector = << >>

\* C13 witness: new(false, some observer) gave the observer-only variant,
\* which has delivered a callback to the observer alone.
C13_Witness ==
    /\ newArgs = [with_trace |-> FALSE, tracer |-> Some("observer")]
    /\ container.variant = "Inspector"
    /\ Len(hookLog) = 1
    /\ hookLog[1].who = "observer"

\* C14: Building is the only state a builder can be called in: once finalize
\* or abort has been called, no add_transaction, finalize or abort takes
\* effect, and the builder's pending list, gas_used and state stay as they are.
C14_TerminalStatesAreFinal ==
    [][builder.phase \in {"Finalized", "Aborted"} =>
         /\ builder' = builder
         /\ bcalls' = bcalls
         /\ Count(storeLog', "revert") = Count(storeLog, "revert")
         /\ Count(storeLog', "apply") = Count(storeLog, "apply")
         /\ (bpc = "idle" => (bpc' = "idle" /\ store' = store))]_vars

\* C14 witness: a builder that accepted a transaction was aborted and is at
\* rest.
C14_Witness ==
    /\ builder.phase = "Aborted"
    /\ bpc = "idle"
    /\ Len(builder.transactions) = 1
    /\ builder.header.gas_used > 0

\* C15: a finalize that returns Ok has increased each address's balance by
\* the sum of the amounts listed for it, and left every nonce, and the
\* accounts not listed, as they were.
C15_FinalizeAddsRewardSums ==
    (bret.kind = "Ok" /\ "op" \in DOMAIN bret /\ bret.op = "finalize") =>
        \A a \in Addr :
            store.accounts[a] =
                [balance |-> bret.before[a].balance + RewardSum(bret.rewards, a),
                 nonce |-> bret.before[a].nonce]

\* C15 witness: one address listed twice, with 5 and 3, gained 8 and the
\* other one nothing.
C15_Witness ==
    /\ bret.kind = "Ok" /\ "op" \in DOMAIN bret /\ bret.op = "finalize"
    /\ bret.rewards = << <<"a1", 5>>, <<"a1", 3>> >>
    /\ store.accounts["a1"].balance = bret.before["a1"].balance + 8
    /\ store.accounts["a2"] = bret.before["a2"]

\* C16: the pending list is the accepted transactions in the order of their
\* calls: an accepted add_transaction appends its transaction once, at the
\* end; a rejected one and every other step leave the list as it is.
C16_PendingListIsAcceptedInOrder ==
    [][IF bcalls' # bcalls
       THEN IF bret'.kind = "Err"
            THEN builder'.transactions = builder.transactions
            ELSE builder'.transactions = Append(builder.transactions, bcur'.tx)
       ELSE builder'.transactions = builder.transactions]_vars

\* C16 witness: two different transactions were accepted and are listed in
\* the order of their calls.
C16_Witness ==
    /\ Len(builder.transactions) = 2
    /\ builder.transactions[1] # builder.transactions[2]
    /\ bpc = "apply"
    /\ bcur.tx = builder.transactions[2]

\* C17: add_transaction calls on one builder run one after the other: when
\* call i+1 executes, the applies of calls 1..i have completed and the store
\* it reads holds their effects; nothing touches the store between its
\* execution and its apply.
C17_AddTransactionsAreSequential ==
    /\ (Building(builder) /\ bpc = "idle") =>
          /\ CountBy(storeLog, "apply", "builder") = Len(builder.transactions)
          /\ store.accounts = Replay(builder, builderS0, builder.transactions)
    /\ bpc = "exec" =>
          /\ CountBy(storeLog, "apply", "builder") = Len(builder.transactions) - 1
          /\ store.accounts = Replay(builder, builderS0, Front(builder.transactions))
    /\ bpc = "apply" =>
          /\ CountBy(storeLog, "apply", "builder") = Len(builder.transactions) - 1
          /\ bcur.read = Replay(builder, builderS0, Front(builder.transactions))
          /\ store.accounts = bcur.read

\* C17 witness: the second call has executed against a store the first
\* call's apply had changed.
C17_Witness ==
    /\ bpc = "apply"
    /\ Len(builder.transactions) = 2
    /\ bcur.read # builderS0
    /\ CountBy(storeLog, "apply", "builder") = 1

\* C18 (as claimed): run() calls made concurrently on one store commit as if
\* one after the other: when two runs were the only commits, the store holds
\* what executing and applying the two transactions in one of the two orders
\* gives.
C18_ConcurrentRunsAreSerial ==
    (/\ epc = "idle" /\ eret.kind = "Ok" /\ eret.entry = "run"
     /\ rpc = "idle" /\ rret.kind = "Ok"
     /\ Len(storeLog) = 2) =>
        LET first == [tx |-> eret.tx, block |-> eret.block]
            second == [tx |-> rret.tx, block |-> rret.block]
        IN  store.accounts \in {Serial(cfg, InitAccounts, << first, second >>),
                                Serial(cfg, InitAccounts, << second, first >>)}

\* C19: in a Dual container the payload handed to the observer's call_end and
\* create_end hook is the one the interpreter handed in, whatever the
\* collector's hook returned for its copy; the collector is handed an equal
\* copy.
C19_ObserverGetsInterpretersPayload ==
    (container.variant = "Dual" /\ lastCb.kind \in {"call_end", "create_end"}) =>
        /\ lastCb.observerArg = Some(lastCb.payload)
        /\ lastCb.collectorArg = Some(lastCb.payload)

\* C19 witness: the collector's create_end hook returned another result than
\* it was handed, and the observer was handed the interpreter's.
C19_Witness ==
    /\ container.variant = "Dual"
    /\ lastCb.kind = "create_end"
    /\ lastCb.payload = <<"resultB", Some("a1")>>
    /\ lastCb.collectorRet = <<"resultA", None>>
    /\ lastCb.observerArg = Some(<<"resultB", Some("a1")>>)

\* C20 (as claimed): the constructed header has number = the override or
\* parent.number + 1, gas_limit = the override or parent.gas_limit, parent
\* hash = the override or the hash of the supplied parent header; gas_used is
\* 0 and the pending list empty until the first call.
C20_HeaderFromParentAndOverrides ==
    builder.phase # "Unbuilt" =>
        /\ builder.header.number = unwrap_or(bnew.header.number, bnew.parent.number + 1)
        /\ builder.header.gas_limit = unwrap_or(bnew.header.gas_limit, bnew.parent.gas_limit)
        /\ builder.header.parent_hash = unwrap_or(bnew.header.parent_hash, bnew.parent.hash)
        /\ bcalls = 0 => (builder.header.gas_used = 0 /\ builder.transactions = << >>)

\* C21: as_dyn_inspector gives no handle exactly for the None variant, and
\* otherwise a handle whose callbacks reach the active variant's inspectors
\* (the collector, the observer, or both); into_tracer yields the owned
\* collector with the events accumulated so far for Collector and Dual, and
\* nothing for None and Inspector.
C21_HandleAndIntoTracer ==
    /\ as_dyn_inspector(container).some <=> container.variant # "None"
    /\ \A n \in 1..Len(fired) :
          {hookLog[i].who : i \in {j \in 1..Len(hookLog) : hookLog[j].n = n}} =
              (CASE container.variant = "None" -> {}
                 [] container.variant = "Collector" -> {"collector"}
                 [] container.variant = "Inspector" -> {"observer"}
                 [] container.variant = "Dual" -> {"collector", "observer"})
    /\ consumed # NoRet =>
          consumed.tracer =
              IF container.variant \in {"Collector", "Dual"}
              THEN Some(SubSeq(fired, Len(drained) + 1, Len(fired)))
              ELSE None

\* C21 witness: a Dual container that was cleared after its first callback
\* gave into_tracer the collector holding the second one.
C21_Witness ==
    /\ container.variant = "Dual"
    /\ fired = << "step", "call" >>
    /\ drained = << "step" >>
    /\ consumed # NoRet
    /\ consumed.tracer = Some(<< "call" >>)

\* C22 (as claimed): the block environment add_transaction builds carries a
\* prevrandao exactly when the builder's spec is the merge or later, so that
\* no execution of the builder runs a spec that requires one without it.
C22_BuilderEnvPrevrandaoIffPostMerge ==
    bpc \in {"exec", "apply"} =>
        (bcur.block.prevrandao.some <=> PostMerge(builder.cfg.spec_id))

\* C23: finalize sends the rewards in list order and stops at the first store
\* error: when modify_account fails for entry k, finalize returns the error,
\* the entries before k stay applied to the store, no revert is sent and no
\* entry after k is attempted.
C23_FinalizeStopsAtFirstError ==
    (bret.kind = "Err" /\ "op" \in DOMAIN bret /\ bret.op = "finalize") =>
        LET applied == SubSeq(bret.rewards, 1, bret.failed - 1)
        IN  /\ bret.error = "store"
            /\ bpc = "idle"
            /\ \A a \in Addr :
                  store.accounts[a] =
                      [balance |-> bret.before[a].balance + RewardSum(applied, a),
                       nonce |-> bret.before[a].nonce]
            /\ Count(storeLog, "modify_account") = bret.failed
            /\ Count(storeLog, "revert") = 0
            /\ storeLog[Len(storeLog)].op = "modify_account"

\* C23 witness: the second of two entries failed; the first one's reward is
\* in the store and the second one's is not.
C23_Witness ==
    /\ bret.kind = "Err" /\ "op" \in DOMAIN bret /\ bret.op = "finalize"
    /\ bret.rewards = << <<"a1", 5>>, <<"a2", 3>> >>
    /\ bret.failed = 2
    /\ store.accounts["a1"].balance = bret.before["a1"].balance + 5
    /\ store.accounts["a2"] = bret.before["a2"]

\* C24: guaranteed_dry_run disables the balance check for its own execution
\* only: the Executor's cfg never changes, a guaranteed_dry_run executes with
\* disable_balance_check set, and a dry_run or run, whatever calls came
\* before, executes with the cfg as configured.
C24_GuaranteedDryRunUsesPrivateCfg ==
    /\ [][cfg' = cfg]_vars
    /\ [](epc \in {"exec", "apply"} =>
            IF ecur.entry = "guaranteed_dry_run"
            THEN ecur.cfg = [cfg EXCEPT !.disable_balance_check = TRUE]
            ELSE ecur.cfg = cfg /\ ~ecur.cfg.disable_balance_check)
    /\ []((eret.kind = "Ok" /\ eret.entry \in {"dry_run", "run"}) =>
            eret.result = Inspect(cfg, eret.store0.accounts, eret.tx, eret.block).result)

\* C24 witness: after a guaranteed_dry_run on the Executor, a dry_run of a
\* transaction whose caller cannot pay was refused for lack of funds.
C24_Witness ==
    /\ ranGuaranteed
    /\ eret.kind = "Ok"
    /\ eret.entry = "dry_run"
    /\ eret.store0.accounts[eret.tx.caller].balance < eret.tx.value
    /\ eret.result.exit = "LackOfFundForGasLimit"

\* C25: chain_id() of a legacy signed transaction is None for v <= 36 and,
\* for every chain id c >= 1, Some(c) for both v = 2c + 35 and v = 2c + 36;
\* try_cast makes a legacy-shaped transaction EIP155 exactly when chain_id()
\* is Some (v > 36), and Legacy otherwise.
C25_ChainIdRoundTripAndCast ==
    /\ chainIdRet # NoRet =>
          /\ napiTx.v.val <= 36 => chainIdRet.val = None
          /\ \A c \in 1..MaxChainId, parity \in {0, 1} :
                napiTx.v.val = 2 * c + 35 + parity => chainIdRet.val = Some(c)
          /\ napiTx.v.val > 36 => chainIdRet.val.some
    /\ (castRet.kind = "Ok" /\ napiTx.shape = "A") =>
          /\ castRet.variant \in {"EIP155", "Legacy"}
          /\ castRet.variant = "EIP155" <=> napiTx.v.val > 36
          /\ chainIdRet # NoRet =>
                (castRet.variant = "EIP155" <=> chainIdRet.val.some)

\* C25 witness: v = 2 * 2 + 36 gave chain id 2 and an EIP155 transaction.
C25_Witness ==
    /\ napiTx.shape = "A"
    /\ napiTx.v = [fits |-> TRUE, val |-> 40]
    /\ chainIdRet = [kind |-> "Ok", val |-> Some(2)]
    /\ castRet = [kind |-> "Ok", variant |-> "EIP155"]

\* ---------------------------------------------------------- specifications

InitStore ==
    /\ store = [accounts |-> InitAccounts, checkpoints |-> << >>]
    /\ storeLog = << >>
    /\ evmRuns = 0

InitBuilder ==
    /\ builder = Unbuilt
    /\ builderS0 = InitAccounts
    /\ bnew = NoCall
    /\ bpc = "idle"
    /\ bcur = NoCall
    /\ bret = NoRet
    /\ bcalls = 0

InitNoTransaction ==
    /\ napiTx = [shape |-> "A", v |-> [fits |-> TRUE, val |-> 0], convertible |-> TRUE]
    /\ chainIdRet = NoRet
    /\ castRet = NoRet

InitTransaction ==
    /\ napiTx \in NapiTxs
    /\ chainIdRet = NoRet
    /\ castRet = NoRet

InitRival ==
    /\ rpc = "idle"
    /\ rcur = NoCall
    /\ rret = NoRet

InitExec ==
    /\ cfg \in [spec_id : SpecIds, disable_balance_check : {FALSE}]
    /\ epc = "idle"
    /\ ecur = NoCall
    /\ eret = NoRet
    /\ ecalls = 0
    /\ ranGuaranteed = FALSE

InitInspector ==
    /\ \E with_trace \in BOOLEAN, tracer \in {None, Some("observer")} :
          /\ newArgs = [with_trace |-> with_trace, tracer |-> tracer]
          /\ container = InspectorContainer_new(with_trace, tracer)
    /\ fired = << >>
    /\ hookLog = << >>
    /\ lastCb = NoCallback
    /\ lastClear = None
    /\ drained = << >>
    /\ consumed = NoRet

\* the specifications of the builder and of the Executor run with one
\* compositor; the compositor's own specification starts from all four
InitOneContainer ==
    /\ newArgs = [with_trace |-> TRUE, tracer |-> None]
    /\ container = InspectorContainer_new(TRUE, None)
    /\ fired = << >>
    /\ hookLog = << >>
    /\ lastCb = NoCallback
    /\ lastClear = None
    /\ drained = << >>
    /\ consumed = NoRet

Init ==
    InitStore /\ InitBuilder /\ InitExec /\ InitRival /\ InitOneContainer /\ InitNoTransaction

InitSigned ==
    /\ InitStore /\ InitBuilder /\ InitRival /\ InitOneContainer /\ InitTransaction
    /\ cfg = [spec_id |-> MERGE, disable_balance_check |-> FALSE]
    /\ epc = "idle"
    /\ ecur = NoCall
    /\ eret = NoRet
    /\ ecalls = 0
    /\ ranGuaranteed = FALSE

InitCompositor ==
    /\ InitStore /\ InitBuilder /\ InitRival /\ InitInspector /\ InitNoTransaction
    /\ cfg = [spec_id |-> MERGE, disable_balance_check |-> FALSE]
    /\ epc = "idle"
    /\ ecur = NoCall
    /\ eret = NoRet
    /\ ecalls = 0
    /\ ranGuaranteed = FALSE

NextBuilder ==
    \/ Construct
    \/ \E tx \in Txs : AddTransactionBegin(tx)
    \/ AddTransactionExec
    \/ AddTransactionApply
    \/ \E rewards \in RewardLists : FinalizeBegin(rewards)
    \/ FinalizeStep
    \/ Abort

NextRival ==
    \/ \E tx \in ExecTxs, block \in BlockEnvs : RivalCall(tx, block)
    \/ RivalExecute
    \/ RivalApply

\* one caller driving a Block Builder
SpecBuilder == Init /\ [][NextBuilder]_vars

NextExec ==
    \/ \E entry \in EntryPoints, tx \in ExecTxs, block \in BlockEnvs :
          Call(entry, tx, block)
    \/ Execute
    \/ RunApply

\* one caller driving the Executor
SpecExec == Init /\ [][NextExec]_vars

\* two callers driving the Executor concurrently
SpecConc == Init /\ [][NextExec \/ NextRival]_vars


\* the callbacks of NextConsume: one payload and one return value per kind
OnePayload(kind) == CHOOSE payload \in Payloads(kind) : TRUE
OneReturn(kind) == CHOOSE ret \in HookReturns(kind) : TRUE

NextConsume ==
    \/ \E kind \in CallbackKinds :
          Callback(kind, OnePayload(kind), OneReturn(kind), OneReturn(kind))
    \/ ClearTrace
    \/ IntoTracer

\* a container driven by the interpreter, cleared, and in the end consumed
SpecConsume == InitCompositor /\ [][NextConsume]_vars

NextSigned ==
    \/ ChainId
    \/ TryCast

\* signed transactions arriving over N-API
SpecSigned == InitSigned /\ [][NextSigned]_vars

NextInspector ==
    \/ \E kind \in CallbackKinds :
          \E payload \in Payloads(kind), immRet \in HookReturns(kind),
             mutRet \in HookReturns(kind) :
             Callback(kind, payload, immRet, mutRet)
    \/ ClearTrace

\* the interpreter driving one Inspector Compositor
SpecInspector == InitCompositor /\ [][NextInspector]_vars

====
